---- MODULE Spec2Model ----
(***************************************************************************)
(* Model of the UniFi reconciliation engine (plugins/module_utils/unifi.py)*)
(* together with the connection plugin (plugins/httpapi/httpapi.py: the    *)
(* request it builds, the variant probe and handle_httperror), the         *)
(* settings module (plugins/modules/setting.py) and Logger.join            *)
(* (plugins/module_utils/logging.py).                                      *)
(*                                                                         *)
(* Spec is a run of ensure_item for the kind portconf, SpecKinds a run for *)
(* any kind that a module sets, SpecList a run for a parameter declared as *)
(* a list, SpecTwice two runs for the same desired item, SpecSetting a run *)
(* of the settings module, SpecPlugin a series of send_request, login and  *)
(* logout calls on one connection and SpecJoin a call of Logger.join.      *)
(*                                                                         *)
(* An item is a function from field names to values (a Python dict).  The  *)
(* field "_id", "name", "vlan", "purpose", "poe_mode" hold strings,        *)
(* "vlan_enabled" holds a boolean and "__missing__" holds a sequence of    *)
(* field names.  Python's None is the empty sequence where an optional     *)
(* value is passed (data, _id).                                            *)
(***************************************************************************)
EXTENDS Integers, Sequences, FiniteSets, TLC

VARIABLES
    pc,             \* position of the module run
    check_mode,     \* AnsibleModule.check_mode
    state,          \* module parameter 'state'
    use_compare,    \* whether ensure_item was given a compare callback
    use_hook,       \* whether ensure_item was given a preprocess_item callback
    param,          \* module parameter <item_type> as declared by the user
    item,           \* ensure_item's local 'item' (the input item, mutated in place)
    controller,     \* items held by the controller (in list order)
    created,        \* number of items the controller has created so far
    fetched,        \* what the GET of the existing items returned
    existing_items, \* ensure_item's local list of existing items (merged in place)
    ul,             \* what update_list returned
    changed_items,  \* ensure_item's local name 'changed_items'
    ni, nc, nd,     \* items already handled by the three loops of ensure_item
    changed,        \* ensure_item's local 'changed'
    result,         \* UniFi.__result: [changed, has_kind, data]
    requests,       \* every request handed to connection.send, in order
    fail_msg,       \* message passed to fail_json (<<>> while none)
    input_settings, \* settings module: parameter 'settings', sections in order
    settings,       \* settings module: local 'settings' (mutated in place)
    section_no,     \* settings module: sections already handled
    logger_enabled, \* UniFi.__logger.enabled (module parameter 'debug' above 0)
    socket_path,    \* whether AnsibleModule._socket_path is set
    hpc,            \* connection plugin: position of the current send_request
    is_unifi_os,    \* connection option 'is_unifi_os' (<<>> while None)
    masked_errors,  \* HttpApi.__masked_errors
    call,           \* connection plugin: the call under way (NoCall between calls)
    wire,           \* the request handed to connection.send by the call under way
    handled,        \* the last handle_httperror of the current send_request
    outcome,        \* how the last send_request ended
    probe_status,   \* status the last answered probe received (0 while none)
    ncalls,         \* calls made on this connection
    auth,           \* connection._auth (<<>> while None, else the cached headers)
    resp,           \* headers of the response this step passed to update_auth
    scope,          \* the part of the connection's use that is followed
    item_type,      \* the item_type ensure_item was called with
    run_no,         \* which run of ensure_item this is (from 1)
    invocation,     \* which invocation of the module this is (from 1)
    prev,           \* what the run before this one reported (<<>> in the first)
    failed_at,      \* number of the first request of the run that failed (0: none)
    logs,           \* Logger.join: the log lists passed in
    joined          \* Logger.join: the list returned (<<>> before the call)

vars == <<pc, check_mode, state, use_compare, use_hook, param, item, controller,
          created, fetched, existing_items, ul, changed_items, ni, nc, nd, changed,
          result, requests, fail_msg, input_settings, settings, section_no,
          logger_enabled, socket_path, hpc, is_unifi_os, masked_errors, call, wire,
          handled, outcome, probe_status, ncalls, auth, resp, scope,
          item_type, run_no, invocation, prev, failed_at, logs,
          joined>>

\* the variables of the settings module's run
setting_vars == <<input_settings, settings, section_no>>

\* the diagnostics switch and the connection socket of a module run
run_env == <<logger_enabled, socket_path>>

\* the kind ensure_item is called for and the runs made before this one
series_vars == <<item_type, run_no, invocation, prev>>

\* the variables of the connection plugin
plugin_vars == <<hpc, is_unifi_os, masked_errors, call, wire, handled, outcome,
                 probe_status, ncalls, auth, resp, scope>>

\* the variables of a Logger.join call
join_vars == <<logs, joined>>

\* the variables of an ensure_item run that the settings module does not use
ensure_vars == <<use_compare, use_hook, param, item, created, existing_items, ul,
                 changed_items, ni, nc, nd, changed, fail_msg>>

(***************************************************************************)
(* Bounds of the model.                                                    *)
(***************************************************************************)
MaxExisting == 2

(***************************************************************************)
(* Dicts.                                                                  *)
(***************************************************************************)
Has(it, k) == k \in DOMAIN it

Put(it, k, v) == [x \in (DOMAIN it) \cup {k} |-> IF x = k THEN v ELSE it[x]]

Del(it, k) == [x \in (DOMAIN it) \ {k} |-> it[x]]

EmptyItem == [x \in {} |-> ""]

\* str.lower() on the names of the model
Lower(s) ==
    CASE s = "LAN" -> "lan"
      [] s = "Lan" -> "lan"
      [] s = "DMZ" -> "dmz"
      [] OTHER -> s

MISSING_KEY == "__missing__"

STATES == {"present", "absent", "ignore"}

\* UniFi.__API_CONFIG[item_type]['request_kwargs']['path']
ItemType == item_type

ApiPath(kind) ==
    CASE kind = "site" -> "/sites"
      [] kind = "get_settings" -> "/get/setting"
      [] kind = "settings" -> "/set/setting"
      [] kind = "device" -> "/stat/device"
      [] kind = "networkconf" -> "/rest/networkconf"
      [] kind = "portconf" -> "/rest/portconf"
      [] kind = "ccode" -> "/stat/ccode"

(***************************************************************************)
(* set_missing / pop_missing                                               *)
(***************************************************************************)
\* the item after UniFi.set_missing(item, attribute)
set_missing(it, attribute) ==
    LET missing == IF Has(it, MISSING_KEY) THEN it[MISSING_KEY] ELSE <<>>
    IN  Put(it, MISSING_KEY, Append(missing, attribute))

\* a pop_missing that drops the annotation and returns nothing
pop_missing_none(it) == [missing |-> <<>>, item |-> Del(it, MISSING_KEY)]

\* a pop_missing that returns the annotation but leaves it on the item
pop_missing_keep(it) ==
    [missing |-> IF Has(it, MISSING_KEY) THEN it[MISSING_KEY] ELSE <<>>,
     item |-> it]

\* UniFi.pop_missing(item): the list popped and the item left behind
pop_missing(it) ==
    [missing |-> IF Has(it, MISSING_KEY) THEN it[MISSING_KEY] ELSE <<>>,
     item |-> Del(it, MISSING_KEY)]

\* the part of preprocess_portconf that annotates the item
preprocess_item(it) ==
    IF ~Has(it, "poe_mode") THEN set_missing(it, "poe_mode") ELSE it

(***************************************************************************)
(* Comparators                                                             *)
(***************************************************************************)
Purpose(it) == IF Has(it, "purpose") THEN it["purpose"] ELSE "corporate"

\* compare_networkconf(net_a, net_b) raises KeyError
compare_raises(net_a, net_b) ==
    /\ Purpose(net_a) = Purpose(net_b)
    /\ Has(net_a, "vlan_enabled") = Has(net_b, "vlan_enabled")
    /\ IF Has(net_a, "vlan_enabled")
       THEN /\ net_a["vlan_enabled"] /\ net_b["vlan_enabled"]
            /\ ~(Has(net_a, "vlan") /\ Has(net_b, "vlan"))
       ELSE ~(Has(net_a, "name") /\ Has(net_b, "name"))

\* compare_networkconf(net_a, net_b), where it does not raise
compare_networkconf(net_a, net_b) ==
    IF Purpose(net_a) # Purpose(net_b) THEN FALSE
    ELSE IF Has(net_a, "vlan_enabled") # Has(net_b, "vlan_enabled") THEN FALSE
    ELSE IF Has(net_a, "vlan_enabled") /\ Has(net_b, "vlan_enabled")
    THEN \/ (~net_a["vlan_enabled"] /\ ~net_b["vlan_enabled"])
         \/ (net_a["vlan_enabled"] /\ net_b["vlan_enabled"]
               /\ net_a["vlan"] = net_b["vlan"])
    ELSE Lower(net_a["name"]) = Lower(net_b["name"])

\* the default comparison of _do_compare: by name, case invariant
compare_name(input_item, existing_item) ==
    /\ Has(input_item, "name")
    /\ Has(existing_item, "name")
    /\ Lower(input_item["name"]) = Lower(existing_item["name"])

\* _do_compare(existing_item, compare)
do_compare(input_item, existing_item, compare) ==
    IF compare THEN compare_networkconf(input_item, existing_item)
    ELSE compare_name(input_item, existing_item)

\* indices of the items of a list that pass a test, in list order
RECURSIVE FilterIdx(_, _, _, _)
FilterIdx(input_item, items, compare, i) ==
    IF i > Len(items) THEN <<>>
    ELSE (IF do_compare(input_item, items[i], compare) THEN <<i>> ELSE <<>>)
         \o FilterIdx(input_item, items, compare, i + 1)

SeqToSet(s) == {s[i] : i \in 1..Len(s)}

\* matching with the name comparison tried even when the compare callback matched
matching_union(input_item, items, compare) ==
    LET byName == FilterIdx(input_item, items, FALSE, 1)
        first == FilterIdx(input_item, items, compare, 1)
        RECURSIVE Pick(_)
        Pick(i) == IF i > Len(items) THEN <<>>
                   ELSE (IF i \in SeqToSet(first) \cup SeqToSet(byName)
                         THEN <<i>> ELSE <<>>) \o Pick(i + 1)
    IN  Pick(1)

\* a third attempt that matches by the input item's _id
matching_with_id(input_item, items, compare) ==
    LET first == FilterIdx(input_item, items, compare, 1)
        second == IF first = <<>> /\ compare
                  THEN FilterIdx(input_item, items, FALSE, 1) ELSE first
        RECURSIVE ById(_)
        ById(i) == IF i > Len(items) THEN <<>>
                   ELSE (IF Has(input_item, "_id") /\ Has(items[i], "_id")
                            /\ items[i]["_id"] = input_item["_id"]
                         THEN <<i>> ELSE <<>>) \o ById(i + 1)
    IN  IF second = <<>> THEN ById(1) ELSE second

\* update_list: the indices (into existing_items) of matching_items
matching_items(input_item, items, compare) ==
    LET first == FilterIdx(input_item, items, compare, 1)
    IN  IF first = <<>> /\ compare
        THEN FilterIdx(input_item, items, FALSE, 1)
        ELSE first

\* update_list: a comparison raises while the lists are filtered
matching_raises(input_item, items, compare) ==
    compare /\ \E i \in 1..Len(items) : compare_raises(input_item, items[i])

(***************************************************************************)
(* update_item / update_list                                               *)
(***************************************************************************)
\* second loop of update_item: delete the attributes that must be absent
RECURSIVE remove_absent(_, _, _)
remove_absent(existing_item, require_absent, i) ==
    IF i > Len(require_absent) THEN [item |-> existing_item, changed |-> FALSE]
    ELSE IF Has(existing_item, require_absent[i])
    THEN [item |-> remove_absent(Del(existing_item, require_absent[i]),
                                 require_absent, i + 1).item,
          changed |-> TRUE]
    ELSE remove_absent(existing_item, require_absent, i + 1)

\* an update_item that forgets the attributes that must be absent
update_item_keep(input_item, existing_item, require_absent) ==
    [item |-> [k \in (DOMAIN existing_item) \cup (DOMAIN input_item) |->
                  IF Has(input_item, k) THEN input_item[k] ELSE existing_item[k]],
     changed |-> \E k \in DOMAIN input_item :
                    ~Has(existing_item, k) \/ existing_item[k] # input_item[k]]

\* an update_item that reports a change for every match
update_item_always(input_item, existing_item, require_absent) ==
    LET merged == [k \in (DOMAIN existing_item) \cup (DOMAIN input_item) |->
                      IF Has(input_item, k) THEN input_item[k] ELSE existing_item[k]]
    IN  [item |-> remove_absent(merged, require_absent, 1).item, changed |-> TRUE]

\* update_item(input_item, existing_item, require_absent, None): the existing
\* item after the call and the value returned
update_item(input_item, existing_item, require_absent) ==
    LET merged == [k \in (DOMAIN existing_item) \cup (DOMAIN input_item) |->
                      IF Has(input_item, k) THEN input_item[k] ELSE existing_item[k]]
        differs == \E k \in DOMAIN input_item :
                      ~Has(existing_item, k) \/ existing_item[k] # input_item[k]
        removed == remove_absent(merged, require_absent, 1)
    IN  [item |-> removed.item, changed |-> differs \/ removed.changed]

\* update_list: state in ['ignore', None]
is_ignore(st) == st \in {"ignore"}

\* update_list: state in ['present', True]
is_present(st) == st \in {"present"}

\* update_list: state in ['absent', False]
is_absent(st) == st \in {"absent"}

\* only the first matching item is listed
ignored_first(items, matched) ==
    IF matched = <<>> THEN <<>> ELSE <<items[matched[1]]>>

\* update_list, state ignore: every matching item, as it is
ignored_of(items, matched) == [j \in 1..Len(matched) |-> items[matched[j]]]

\* the _id of the first matching item only
deleted_first(items, matched) ==
    IF matched = <<>> THEN <<>> ELSE <<items[matched[1]]["_id"]>>

\* the _id of every matching item, the last match first
deleted_ids_reversed(items, matched) ==
    [j \in 1..Len(matched) |-> items[matched[Len(matched) + 1 - j]]["_id"]]

\* update_list, state absent: the _id of every matching item
deleted_ids(items, matched) == [j \in 1..Len(matched) |-> items[matched[j]]["_id"]]

\* update_list(input_item, existing_items, state, compare, None)
update_list(input_item, items, st, compare) ==
    LET matched == matching_items(input_item, items, compare)
        popped == pop_missing(input_item)
        upd(i) == update_item(popped.item, items[i], popped.missing)
        RECURSIVE ChangedIdx(_)
        ChangedIdx(j) == IF j > Len(matched) THEN <<>>
                         ELSE (IF upd(matched[j]).changed THEN <<matched[j]>> ELSE <<>>)
                              \o ChangedIdx(j + 1)
        none == [error |-> <<>>, input |-> input_item, existing |-> items,
                 matched |-> matched, ignored |-> <<>>, changed |-> <<>>,
                 changed_idx |-> <<>>, deleted |-> <<>>]
    IN  IF matching_raises(input_item, items, compare)
        THEN [error |-> <<"KeyError">>, input |-> input_item, existing |-> items,
              matched |-> <<>>, ignored |-> <<>>, changed |-> <<>>,
              changed_idx |-> <<>>, deleted |-> <<>>]
        ELSE IF is_ignore(st)
        THEN [none EXCEPT !.ignored = ignored_of(items, matched)]
        ELSE IF is_present(st)
        THEN IF matched # <<>>
             THEN LET merged == [i \in 1..Len(items) |->
                                    IF i \in SeqToSet(matched) THEN upd(i).item
                                    ELSE items[i]]
                      idx == ChangedIdx(1)
                  IN  [none EXCEPT !.input = popped.item, !.existing = merged,
                                   !.changed = [j \in 1..Len(idx) |-> merged[idx[j]]],
                                   !.changed_idx = idx]
             ELSE [none EXCEPT !.input = popped.item, !.changed = <<popped.item>>,
                               !.changed_idx = <<0>>]
        ELSE IF is_absent(st)
        THEN IF \E j \in 1..Len(matched) : ~Has(items[matched[j]], "_id")
             THEN [none EXCEPT !.error = <<"KeyError">>]
             ELSE [none EXCEPT !.deleted = deleted_ids(items, matched)]
        ELSE [none EXCEPT !.error = <<"ValueError">>]

(***************************************************************************)
(* The connection plugin: HttpApi.send_request, and the controller         *)
(***************************************************************************)
\* a send_request that takes an empty mapping for no data ('if data')
send_request_truthy(data, path, _id) ==
    LET from_data == Len(data) > 0 /\ Len(_id) = 0 /\ Has(data[1], "_id")
        id == IF from_data THEN <<data[1]["_id"]>> ELSE _id
        body == IF from_data /\ Cardinality(DOMAIN data[1]) = 1 THEN <<>> ELSE data
        method == IF Len(body) > 0 /\ DOMAIN body[1] # {}
                  THEN (IF Len(id) > 0 THEN "PUT" ELSE "POST")
                  ELSE (IF Len(id) > 0 THEN "DELETE" ELSE "GET")
    IN  [method |-> method, path |-> path, id |-> id, body |-> body]

\* a send_request that never looks for an _id in data
send_request_explicit_only(data, path, _id) ==
    LET method == IF Len(data) > 0
                  THEN (IF Len(_id) > 0 THEN "PUT" ELSE "POST")
                  ELSE (IF Len(_id) > 0 THEN "DELETE" ELSE "GET")
    IN  [method |-> method, path |-> path, id |-> _id, body |-> data]

\* a send_request in which the _id of data overrides the explicit one
send_request_data_wins(data, path, _id) ==
    LET from_data == Len(data) > 0 /\ Has(data[1], "_id")
        id == IF from_data THEN <<data[1]["_id"]>> ELSE _id
        body == IF from_data /\ Cardinality(DOMAIN data[1]) = 1 THEN <<>> ELSE data
        method == IF Len(body) > 0
                  THEN (IF Len(id) > 0 THEN "PUT" ELSE "POST")
                  ELSE (IF Len(id) > 0 THEN "DELETE" ELSE "GET")
    IN  [method |-> method, path |-> path, id |-> id, body |-> body]

\* send_request(data=data, path=path, _id=_id): the request handed to
\* connection.send.  data and _id are <<>> for None, <<v>> otherwise; an _id
\* of the model is a non-empty string, so 'not _id' is '_id is None'.
send_request(data, path, _id) ==
    LET from_data == Len(data) > 0 /\ Len(_id) = 0 /\ Has(data[1], "_id")
        id == IF from_data THEN <<data[1]["_id"]>> ELSE _id
        body == IF from_data /\ Cardinality(DOMAIN data[1]) = 1 THEN <<>> ELSE data
        method == IF Len(body) > 0
                  THEN (IF Len(id) > 0 THEN "PUT" ELSE "POST")
                  ELSE (IF Len(id) > 0 THEN "DELETE" ELSE "GET")
    IN  [method |-> method, path |-> path, id |-> id, body |-> body]

FreshId(n) == CASE n = 0 -> "n1" [] n = 1 -> "n2" [] n = 2 -> "n3" [] OTHER -> "n4"

HasId(store, id) == \E i \in 1..Len(store) : store[i]["_id"] = id

RECURSIVE Without(_, _)
Without(store, id) ==
    IF store = <<>> THEN <<>>
    ELSE (IF store[1]["_id"] = id THEN <<>> ELSE <<store[1]>>) \o Without(Tail(store), id)

\* what connection.send gives back for a request: the controller stores what it
\* is sent, names a created item itself, and answers an unknown id with an error
controller_reply(req, store, n) ==
    CASE req.method = "GET" ->
            [ok |-> TRUE, store |-> store, created |-> n, data |-> store]
      [] req.method = "POST" ->
            LET new == Put(req.body[1], "_id", FreshId(n))
            IN  [ok |-> TRUE, store |-> Append(store, new), created |-> n + 1,
                 data |-> <<new>>]
      [] req.method = "PUT" ->
            IF HasId(store, req.id[1])
            THEN [ok |-> TRUE,
                  store |-> [i \in 1..Len(store) |->
                                IF store[i]["_id"] = req.id[1] THEN req.body[1]
                                ELSE store[i]],
                  created |-> n, data |-> <<req.body[1]>>]
            ELSE [ok |-> FALSE, store |-> store, created |-> n, data |-> <<>>]
      [] req.method = "DELETE" ->
            IF HasId(store, req.id[1])
            THEN [ok |-> TRUE, store |-> Without(store, req.id[1]), created |-> n,
                  data |-> <<>>]
            ELSE [ok |-> FALSE, store |-> store, created |-> n, data |-> <<>>]

\* str(e) of the AnsibleConnectionFailure that connection.send raises where
\* the controller cannot be reached
UNREACHABLE == "Could not connect to the controller"

\* str(e) of the exception of a request the controller answers with an error
REJECTED == "Controller returned an error"

\* a send that goes on after a request failed
aborts_never(ok) == FALSE

\* ensure_item: an exception raised by self.send leaves the try block
aborts(ok) == ~ok

\* self.send(...) with the controller in reach (up) or not: a request that
\* does not get through changes nothing at the controller
transport(req, store, n, up) ==
    IF up THEN controller_reply(req, store, n)
    ELSE [ok |-> FALSE, store |-> store, created |-> n, data |-> <<>>]

(***************************************************************************)
(* The connection plugin: the request on the wire, the variant probe and   *)
(* handle_httperror.  A request on the wire is [method, path, body]; the   *)
(* body is <<>> for None, else the value and whether it went through       *)
(* json_dumps.  A string built by str.format is the sequence of its parts. *)
(***************************************************************************)
\* 'if data: data = json_dumps(data, indent=4)'
request_body(body) ==
    IF body = <<>> THEN <<>>
    ELSE <<[json |-> DOMAIN body[1] # {}, value |-> body[1]]>>

\* a request whose path carries the proxy segment whenever a proxy is asked for
build_request_proxy_always(c, unifi_os) ==
    LET r == send_request(c.data, c.path, c.id)
        proxy == IF c.proxy # <<>> THEN "/proxy/" \o c.proxy[1] ELSE ""
        base == ((proxy \o c.path_prefix) \o c.site) \o c.path
    IN  [method |-> IF c.method # <<>> THEN c.method[1] ELSE r.method,
         path |-> IF r.id # <<>> THEN (base \o "/") \o r.id[1] ELSE base,
         body |-> request_body(r.body)]

\* send_request(**c) from 'if self.is_unifi_os and proxy' on: what is handed
\* to connection.send by a call with the arguments c
build_request(c, unifi_os) ==
    LET r == send_request(c.data, c.path, c.id)
        proxy == IF unifi_os /\ c.proxy # <<>> THEN "/proxy/" \o c.proxy[1] ELSE ""
        base == ((proxy \o c.path_prefix) \o c.site) \o c.path
    IN  [method |-> IF c.method # <<>> THEN c.method[1] ELSE r.method,
         path |-> IF r.id # <<>> THEN (base \o "/") \o r.id[1] ELSE base,
         body |-> request_body(r.body)]

\* connection.send('/api/system', None, method='GET')
ProbeRequest == [method |-> "GET", path |-> "/api/system", body |-> <<>>]

\* the codes __check_unifi_os masks while it probes
PROBE_MASKED == <<400, 401>>

\* list.remove(x): the list without the first x
RECURSIVE list_remove(_, _)
list_remove(list, x) ==
    IF list = <<>> THEN <<>>
    ELSE IF list[1] = x THEN Tail(list)
    ELSE <<list[1]>> \o list_remove(Tail(list), x)

\* the statuses a controller answers with
Statuses == {200, 400, 401, 500}

\* str(exc) of an HTTPError
HttpErrorText(code) ==
    CASE code = 400 -> "HTTP Error 400: Bad Request"
      [] code = 401 -> "HTTP Error 401: Unauthorized"
      [] OTHER -> "HTTP Error 500: Internal Server Error"

\* exc.read().decode('utf-8'): the body of an error response
ErrorBody(code) ==
    CASE code = 400 -> "{\"rc\": \"error\", \"msg\": \"api.err.Invalid\"}"
      [] code = 401 -> "{\"rc\": \"error\", \"msg\": \"api.err.LoginRequired\"}"
      [] OTHER -> "{\"rc\": \"error\"}"

\* what super().handle_httperror(exc) can return: the error itself (not
\* intercepted), True (send the request again) or False (raise the HTTPError)
BaseResults == {"exc", "retry", "reraise"}

\* a handle_httperror that has no masked codes
handle_httperror_unmasked(code, masked, base, filename, message) ==
    IF base = "exc"
    THEN [kind |-> "raise",
          message |-> <<"Controller at ", filename, " returned ",
                        HttpErrorText(code), message>>]
    ELSE [kind |-> base, message |-> <<>>]

\* handle_httperror(exc) for exc.code = code, exc.filename = filename and the
\* error body message, base being what the base handler returns if asked:
\* "response" (exc is returned), "raise" (Exception with the message),
\* "retry" or "reraise" (the result of the base handler is returned)
handle_httperror(code, masked, base, filename, message) ==
    IF \E i \in 1..Len(masked) : masked[i] = code
    THEN [kind |-> "response", message |-> <<>>]
    ELSE IF base = "exc"
    THEN [kind |-> "raise",
          message |-> <<"Controller at ", filename, " returned ",
                        HttpErrorText(code), message>>]
    ELSE [kind |-> base, message |-> <<>>]

\* a call of the plugin: op is the method called ("send_request", "login" or
\* "logout"), the other fields are the arguments of send_request
NoCall == [op |-> "", data |-> <<>>, path |-> "", proxy |-> <<>>, path_prefix |-> "",
           site |-> "", id |-> <<>>, method |-> <<>>]

\* the headers of a response that update_auth looks at (<<>> where the
\* response does not carry the header)
NoResp == [set_cookie |-> <<>>, x_csrf_token |-> <<>>]

\* a probe that is sent by every call
needs_probe_always(flag) == TRUE

\* __check_unifi_os: 'if self.is_unifi_os is None'
needs_probe(flag) == flag = <<>>

\* login: '/api/auth/login' if self.is_unifi_os else '/api/login'
login_path(unifi_os) == IF unifi_os THEN "/api/auth/login" ELSE "/api/login"

\* logout: '/api/auth/logout' if self.is_unifi_os else '/api/logout'
logout_path(unifi_os) == IF unifi_os THEN "/api/auth/logout" ELSE "/api/logout"

\* login: data = {'username': username, 'password': password}
Credentials == [username |-> "admin", password |-> "secret"]

\* what a call hands to connection.send once the variant is known
call_request(c, unifi_os) ==
    CASE c.op = "login" ->
            [method |-> "POST", path |-> login_path(unifi_os),
             body |-> <<[json |-> TRUE, value |-> Credentials]>>]
      [] c.op = "logout" ->
            [method |-> "POST", path |-> logout_path(unifi_os),
             body |-> <<[json |-> TRUE, value |-> EmptyItem]>>]
      [] OTHER -> build_request(c, unifi_os)

\* update_auth: of every part of the Set-Cookie header split at ',', the
\* text before the first ';', kept if it holds a '=' and stripped.  A part
\* is the sequence of its pieces, a piece is [text, eq], text being the
\* stripped text and eq whether it holds a '='
RECURSIVE parse_cookies(_)
parse_cookies(parts) ==
    IF parts = <<>> THEN <<>>
    ELSE (IF parts[1][1].eq THEN <<parts[1][1].text>> ELSE <<>>)
         \o parse_cookies(Tail(parts))

\* ','.join(cookies)
RECURSIVE comma_join(_)
comma_join(strings) ==
    IF strings = <<>> THEN ""
    ELSE IF Len(strings) = 1 THEN strings[1]
    ELSE (strings[1] \o ",") \o comma_join(Tail(strings))

\* an update_auth that starts from empty headers at every response
update_auth_fresh(cached, headers) ==
    LET h1 == Put(EmptyItem, "Content-Type", "application/json")
        h2 == IF headers.set_cookie # <<>>
              THEN Put(h1, "Cookie", comma_join(parse_cookies(headers.set_cookie[1])))
              ELSE h1
    IN  IF headers.x_csrf_token # <<>>
        THEN Put(h2, "X-Csrf-Token", headers.x_csrf_token[1])
        ELSE h2

\* update_auth(response, response_text): the headers returned, cached being
\* connection._auth and headers those of the response
update_auth(cached, headers) ==
    LET h0 == IF cached # <<>> THEN cached[1] ELSE EmptyItem
        h1 == Put(h0, "Content-Type", "application/json")
        h2 == IF headers.set_cookie # <<>>
              THEN Put(h1, "Cookie", comma_join(parse_cookies(headers.set_cookie[1])))
              ELSE h1
    IN  IF headers.x_csrf_token # <<>>
        THEN Put(h2, "X-Csrf-Token", headers.x_csrf_token[1])
        ELSE h2

\* a piece of a Set-Cookie header
Piece(text, eq) == [text |-> text, eq |-> eq]

\* the Set-Cookie headers a controller sends: one cookie with an attribute,
\* and two cookies the first of which has an Expires attribute (its date
\* holds a ',')
SetCookies ==
    {<<<<Piece("unifises=s1", TRUE), Piece("Path=/", TRUE)>>>>,
     <<<<Piece("TOKEN=t2", TRUE), Piece("Expires=Wed", TRUE)>>,
       <<Piece("21 Oct 2026 07:28:00 GMT", FALSE), Piece("Secure", FALSE)>>,
       <<Piece("csrf_token=c2", TRUE)>>>>}

\* the headers of the responses of a controller
ResponseHeaders ==
    {[set_cookie |-> c, x_csrf_token |-> t] :
        c \in {<<>>} \cup {<<x>> : x \in SetCookies}, t \in {<<>>, <<"c1">>}}

NoWire == [method |-> "", path |-> "", body |-> <<>>]

NoHandled == [code |-> 0, masked |-> FALSE, base |-> "", kind |-> "", path |-> "",
              body |-> "", message |-> <<>>]

NoOutcome == [kind |-> "none", status |-> 0, message |-> <<>>]

\* no connection plugin takes part
PluginOff ==
    /\ hpc = "off"
    /\ is_unifi_os = <<>>
    /\ masked_errors = <<>>
    /\ call = NoCall
    /\ wire = NoWire
    /\ handled = NoHandled
    /\ outcome = NoOutcome
    /\ probe_status = 0
    /\ auth = <<>>
    /\ resp = NoResp
    /\ scope = "requests"
    /\ ncalls = 0

\* no Logger.join is called
JoinOff == logs = <<>> /\ joined = <<>>

(***************************************************************************)
(* The inputs of a run                                                     *)
(***************************************************************************)
\* an item from optional values ("" where the field is not given)
MkItem(name, id, vlan, poe, purpose) ==
    LET dom == (IF name # "" THEN {"name"} ELSE {})
               \cup (IF id # "" THEN {"_id"} ELSE {})
               \cup (IF vlan # "" THEN {"vlan_enabled", "vlan"} ELSE {})
               \cup (IF poe # "" THEN {"poe_mode"} ELSE {})
               \cup (IF purpose # "" THEN {"purpose"} ELSE {})
    IN  [k \in dom |-> CASE k = "name" -> name
                         [] k = "_id" -> id
                         [] k = "vlan" -> vlan
                         [] k = "vlan_enabled" -> TRUE
                         [] k = "poe_mode" -> poe
                         [] k = "purpose" -> purpose]

\* the items a user declares
DesiredItems ==
    {MkItem(n, i, v, p, "") : n \in {"", "lan", "dmz"}, i \in {"", "a"},
                              v \in {"", "10"}, p \in {"", "auto"}}

\* the items a controller holds, without their _id
ExistingShapes ==
    {MkItem("LAN", "", "", "", ""),
     MkItem("dmz", "", "", "", ""),
     MkItem("dmz", "", "10", "off", ""),
     MkItem("LAN", "", "20", "", ""),
     MkItem("LAN", "", "", "auto", "guest")}

ExistingId(i) == CASE i = 1 -> "a" [] i = 2 -> "b" [] i = 3 -> "c" [] OTHER -> "d"

\* the lists a controller holds: every item has its own _id
ExistingLists ==
    UNION {{[i \in 1..n |-> Put(f[i], "_id", ExistingId(i))] :
               f \in [1..n -> ExistingShapes]} : n \in 0..MaxExisting}

NoUl == [error |-> <<>>, input |-> EmptyItem, existing |-> <<>>, matched |-> <<>>,
         ignored |-> <<>>, changed |-> <<>>, changed_idx |-> <<>>, deleted |-> <<>>]

\* UniFi.__RESULT_STUB: no list under the kind's key (has_kind), its entries
\* (data) with their Python types (types), no 'trace' and no 'logs'
RESULT_STUB == [changed |-> FALSE, has_kind |-> FALSE, data |-> <<>>, types |-> <<>>,
                trace |-> FALSE, logs |-> FALSE]

\* the state in which ensure_item is called for one of the kinds
InitRun(kinds) ==
    /\ pc = "start"
    /\ check_mode \in BOOLEAN
    /\ state \in STATES
    /\ use_compare \in BOOLEAN
    /\ use_hook \in BOOLEAN
    /\ param \in DesiredItems
    /\ item = param
    /\ controller \in ExistingLists
    /\ created = 0
    /\ fetched = <<>>
    /\ existing_items = <<>>
    /\ ul = NoUl
    /\ changed_items = <<>>
    /\ ni = 0 /\ nc = 0 /\ nd = 0
    /\ changed = FALSE
    /\ result = RESULT_STUB
    /\ requests = <<>>
    /\ fail_msg = <<>>
    /\ input_settings = <<>>
    /\ settings = <<>>
    /\ section_no = 0
    /\ logger_enabled \in BOOLEAN
    /\ socket_path \in BOOLEAN
    /\ item_type \in kinds
    /\ run_no = 1
    /\ invocation = 1
    /\ prev = <<>>
    /\ failed_at = 0
    /\ PluginOff
    /\ JoinOff

\* portconf.py: unifi.ensure_item('portconf', ...)
Init == InitRun({"portconf"})

(***************************************************************************)
(* ensure_item                                                             *)
(***************************************************************************)
\* a run that sends in check mode as well
should_send_always(cm) == TRUE

\* ensure_item: 'if not self.check_mode'
should_send(cm) == ~cm

\* _set_result(result_item): a list extends the kind's list, anything else
\* is appended; type_name is the Python type of what is appended
set_result(res, result_item, is_list, type_name) ==
    [res EXCEPT !.has_kind = TRUE,
                !.data = @ \o (IF is_list THEN result_item ELSE <<result_item>>),
                !.types = @ \o (IF is_list THEN [i \in 1..Len(result_item) |-> type_name]
                                ELSE <<type_name>>)]

\* item = self.param(item_type); preprocess_item(self, item)
Preprocess ==
    /\ pc = "start"
    /\ item' = IF use_hook THEN preprocess_item(item) ELSE item
    /\ pc' = "fetch"
    /\ UNCHANGED <<run_env, series_vars, failed_at, plugin_vars, join_vars, setting_vars, check_mode, fetched, state, use_compare, use_hook, param, controller,
                   created, existing_items, ul, changed_items, ni, nc, nd, changed,
                   result, requests, fail_msg>>

\* str(e) of the ConnectionError the property UniFi.connection raises
NO_CONNECTION == "please use this module with a host httpapi connection of type \"unifi\""

\* existing_items = self.send(item_type=item_type); self.send reads the property
\* UniFi.connection, which raises where the module has no socket path
Fetch ==
    /\ pc = "fetch"
    /\ IF socket_path
       THEN \E up \in BOOLEAN :
            LET req == send_request(<<>>, ApiPath(ItemType), <<>>)
                reply == transport(req, controller, created, up)
            IN  /\ requests' = Append(requests, req)
                /\ failed_at' = IF reply.ok THEN failed_at ELSE Len(requests) + 1
                /\ IF aborts(reply.ok)
                   THEN /\ pc' = "except"
                        /\ fail_msg' = <<UNREACHABLE>>
                        /\ UNCHANGED <<fetched, existing_items>>
                   ELSE /\ fetched' = reply.data
                        /\ existing_items' = reply.data
                        /\ pc' = "update_list"
                        /\ UNCHANGED fail_msg
       ELSE /\ pc' = "except"
            /\ fail_msg' = <<NO_CONNECTION>>
            /\ UNCHANGED <<requests, fetched, existing_items, failed_at>>
    /\ UNCHANGED <<run_env, series_vars, plugin_vars, join_vars, setting_vars, check_mode, state,
                   use_compare, use_hook, param, item, controller, created, ul,
                   changed_items, ni, nc, nd, changed, result>>

\* ignored_items, changed_items, deleted_items = self.update_list(...);
\* changed = False
UpdateList ==
    /\ pc = "update_list"
    /\ LET r == update_list(item, existing_items, state, use_compare)
       IN  /\ ul' = r
           /\ item' = r.input
           /\ existing_items' = r.existing
           /\ changed_items' = r.changed
           /\ pc' = IF r.error # <<>> THEN "except" ELSE "loop"
           /\ fail_msg' = r.error
    /\ changed' = FALSE
    /\ UNCHANGED <<run_env, series_vars, failed_at, plugin_vars, join_vars, setting_vars, check_mode, fetched, state, use_compare, use_hook, param, controller,
                   created, ni, nc, nd, result, requests>>

\* for item in ignored_items: _set_result(item)
IgnoredStep ==
    /\ pc = "loop"
    /\ ni < Len(ul.ignored)
    /\ result' = set_result(result, ul.ignored[ni + 1], FALSE, "dict")
    /\ ni' = ni + 1
    /\ UNCHANGED <<run_env, series_vars, failed_at, plugin_vars, join_vars, setting_vars, pc, check_mode, fetched, state, use_compare, use_hook, param, item,
                   controller, created, existing_items, ul, changed_items, nc, nd,
                   changed, requests, fail_msg>>

\* for item in changed_items: send it unless in check mode, _set_result(item)
ChangedStep ==
    /\ pc = "loop"
    /\ ni = Len(ul.ignored)
    /\ nc < Len(ul.changed)
    /\ IF should_send(check_mode)
       THEN \E up \in BOOLEAN :
            LET req == send_request(<<ul.changed[nc + 1]>>, ApiPath(ItemType), <<>>)
                reply == transport(req, controller, created, up)
            IN  /\ requests' = Append(requests, req)
                /\ controller' = reply.store
                /\ created' = reply.created
                /\ failed_at' = IF reply.ok \/ failed_at # 0 THEN failed_at
                                ELSE Len(requests) + 1
                /\ IF aborts(reply.ok)
                   THEN /\ pc' = "except"
                        /\ fail_msg' = <<IF up THEN REJECTED ELSE UNREACHABLE>>
                        /\ UNCHANGED <<changed, result, nc>>
                   ELSE /\ changed' = TRUE
                        /\ result' = set_result(result, reply.data, TRUE, "dict")
                        /\ nc' = nc + 1
                        /\ UNCHANGED <<pc, fail_msg>>
       ELSE /\ result' = set_result(result, ul.changed[nc + 1], FALSE, "dict")
            /\ nc' = nc + 1
            /\ UNCHANGED <<pc, fail_msg, requests, controller, created, changed,
                           failed_at>>
    /\ UNCHANGED <<run_env, series_vars, plugin_vars, join_vars, setting_vars, check_mode, fetched, state, use_compare, use_hook, param, item,
                   existing_items, ul, changed_items, ni, nd>>

\* for item in deleted_items: send the DELETE unless in check mode (and bind
\* the name changed_items to True), _set_result(item)
DeletedStep ==
    /\ pc = "loop"
    /\ ni = Len(ul.ignored)
    /\ nc = Len(ul.changed)
    /\ nd < Len(ul.deleted)
    /\ IF should_send(check_mode)
       THEN \E up \in BOOLEAN :
            LET req == send_request(<<>>, ApiPath(ItemType), <<ul.deleted[nd + 1]>>)
                reply == transport(req, controller, created, up)
            IN  /\ requests' = Append(requests, req)
                /\ controller' = reply.store
                /\ created' = reply.created
                /\ failed_at' = IF reply.ok \/ failed_at # 0 THEN failed_at
                                ELSE Len(requests) + 1
                /\ IF aborts(reply.ok)
                   THEN /\ pc' = "except"
                        /\ fail_msg' = <<IF up THEN REJECTED ELSE UNREACHABLE>>
                        /\ UNCHANGED <<changed_items, result, nd>>
                   ELSE /\ changed_items' = TRUE
                        /\ result' = set_result(result, ul.deleted[nd + 1], FALSE, "str")
                        /\ nd' = nd + 1
                        /\ UNCHANGED <<pc, fail_msg>>
       ELSE /\ result' = set_result(result, ul.deleted[nd + 1], FALSE, "str")
            /\ nd' = nd + 1
            /\ UNCHANGED <<pc, fail_msg, requests, controller, created, changed_items,
                           failed_at>>
    /\ UNCHANGED <<run_env, series_vars, plugin_vars, join_vars, setting_vars, check_mode, fetched, state, use_compare, use_hook, param, item,
                   existing_items, ul, ni, nc, changed>>

\* self.__result['changed'] = (changed or self.__result['changed'])
Finish ==
    /\ pc = "loop"
    /\ ni = Len(ul.ignored)
    /\ nc = Len(ul.changed)
    /\ nd = Len(ul.deleted)
    /\ result' = [result EXCEPT !.changed = changed \/ result.changed]
    /\ pc' = "exit"
    /\ UNCHANGED <<run_env, series_vars, failed_at, plugin_vars, join_vars, setting_vars, check_mode, fetched, state, use_compare, use_hook, param, item, controller,
                   created, existing_items, ul, changed_items, ni, nc, nd, changed,
                   requests, fail_msg>>

\* unifi.exit(): the logs are attached if the logger is enabled,
\* exit_json(**result)
Exit ==
    /\ pc = "exit"
    /\ result' = [result EXCEPT !.logs = logger_enabled]
    /\ pc' = "done"
    /\ UNCHANGED <<run_env, series_vars, failed_at, plugin_vars, join_vars, setting_vars, check_mode, fetched,
                   state, use_compare, use_hook, param, item, controller, created,
                   existing_items, ul, changed_items, ni, nc, nd, changed, requests,
                   fail_msg>>

\* whether UniFi.fail() gets as far as fail_json: with the logger enabled it
\* reads the property UniFi.connection first, which raises without a socket path
fail_completes(enabled, has_socket) == ~enabled \/ has_socket

\* except Exception as e: the trace is attached if the logger is enabled, then
\* self.fail(str(e)): the logs are attached if the logger is enabled,
\* fail_json(msg=message, **result); "raised" is an exception leaving ensure_item
Fail ==
    /\ pc = "except"
    /\ IF fail_completes(logger_enabled, socket_path)
       THEN /\ result' = [result EXCEPT !.trace = logger_enabled, !.logs = logger_enabled]
            /\ pc' = "failed"
       ELSE /\ result' = [result EXCEPT !.trace = logger_enabled]
            /\ pc' = "raised"
    /\ UNCHANGED <<run_env, series_vars, failed_at, plugin_vars, join_vars, setting_vars, check_mode, fetched,
                   state, use_compare, use_hook, param, item, controller, created,
                   existing_items, ul, changed_items, ni, nc, nd, changed, requests,
                   fail_msg>>

Next ==
    \/ Preprocess
    \/ Fetch
    \/ UpdateList
    \/ IgnoredStep
    \/ ChangedStep
    \/ DeletedStep
    \/ Finish
    \/ Exit
    \/ Fail

Spec == Init /\ [][Next]_vars

(***************************************************************************)
(* Two runs of ensure_item.  The second is either a further call on the    *)
(* same UniFi object before the module exits, or the call of a new         *)
(* invocation of the module; requests then holds the requests of the       *)
(* second run only.                                                        *)
(***************************************************************************)
\* what a run hands to exit_json: 'changed' and the list under the kind's key
Reported == [changed |-> result.changed, data |-> result.data, types |-> result.types]

\* the locals of ensure_item at the start of a call
FreshLocals ==
    /\ pc' = "start"
    /\ fetched' = <<>>
    /\ existing_items' = <<>>
    /\ ul' = NoUl
    /\ changed_items' = <<>>
    /\ ni' = 0 /\ nc' = 0 /\ nd' = 0
    /\ changed' = FALSE
    /\ requests' = <<>>

\* ensure_item is called again on the same UniFi object: self.param returns
\* the dict of the first call and self.__result is the dict the first call
\* filled (UniFi.__RESULT_STUB itself where no result was passed in)
Rerun ==
    /\ pc = "exit"
    /\ run_no = 1
    /\ run_no' = 2
    /\ prev' = <<Reported>>
    /\ FreshLocals
    /\ UNCHANGED <<item, result, invocation>>
    /\ UNCHANGED <<run_env, plugin_vars, join_vars, setting_vars, item_type, failed_at,
                   check_mode,
                   state, use_compare, use_hook, param, controller, created, fail_msg>>

\* the module is invoked again with the same parameters: a new process with
\* a new UniFi object; the controller keeps what it holds
Restart ==
    /\ pc = "done"
    /\ run_no = 1
    /\ run_no' = 2
    /\ prev' = <<Reported>>
    /\ FreshLocals
    /\ invocation' = 2
    /\ item' = param
    /\ result' = RESULT_STUB
    /\ UNCHANGED <<run_env, plugin_vars, join_vars, setting_vars, item_type, failed_at,
                   check_mode,
                   state, use_compare, use_hook, param, controller, created, fail_msg>>

InitTwice ==
    /\ Init
    /\ ~logger_enabled
    /\ socket_path

NextTwice ==
    \/ Next
    \/ Rerun
    \/ Restart

SpecTwice == InitTwice /\ [][NextTwice]_vars

(***************************************************************************)
(* ensure_item for the kinds of UniFi.__API_CONFIG that a module sets.     *)
(***************************************************************************)
\* UniFi.__API_CONFIG[kind]['getter'], the kind itself where there is none
Getter(kind) == IF kind = "settings" THEN "get_settings" ELSE kind

\* the kinds the modules of the collection reconcile
Kinds == {"portconf", "networkconf", "settings"}

InitKinds ==
    /\ InitRun(Kinds)
    /\ ~logger_enabled
    /\ socket_path

SpecKinds == InitKinds /\ [][Next]_vars

(***************************************************************************)
(* ensure_item for a parameter declared as a list (wlanconf.py: 'type':    *)
(* 'list').  param and item then hold a sequence of items.                 *)
(***************************************************************************)
\* the items of a declared list
ListItems == {MkItem("lan", "", "", "", ""), MkItem("dmz", "", "10", "", ""),
              MkItem("guest", "", "", "auto", "")}

\* the lists a user declares: one or two items
DesiredLists ==
    {<<a>> : a \in ListItems} \cup {<<a, b>> : a \in ListItems, b \in ListItems}

\* the kinds ensure_item is called with for a list: the key of the module
\* parameter, or the ApiDescriptor that wlanconf.py passes ("wlanconf")
ListKinds == {"portconf", "wlanconf"}

\* 'key in self.__module.params': no parameter is keyed by an ApiDescriptor
is_param(kind) == kind # "wlanconf"

InitList ==
    /\ pc = "start"
    /\ check_mode \in BOOLEAN
    /\ state \in STATES
    /\ use_compare = FALSE
    /\ use_hook = FALSE
    /\ param \in DesiredLists
    /\ item = param
    /\ controller \in ExistingLists
    /\ created = 0
    /\ fetched = <<>>
    /\ existing_items = <<>>
    /\ ul = NoUl
    /\ changed_items = <<>>
    /\ ni = 0 /\ nc = 0 /\ nd = 0
    /\ changed = FALSE
    /\ result = RESULT_STUB
    /\ requests = <<>>
    /\ fail_msg = <<>>
    /\ input_settings = <<>>
    /\ settings = <<>>
    /\ section_no = 0
    /\ logger_enabled \in BOOLEAN
    /\ socket_path = TRUE
    /\ item_type \in ListKinds
    /\ run_no = 1
    /\ invocation = 1
    /\ prev = <<>>
    /\ failed_at = 0
    /\ PluginOff
    /\ JoinOff

\* item = self.param(item_type): self.fail where no parameter has that key
ListParam ==
    /\ pc = "start"
    /\ IF is_param(item_type)
       THEN /\ pc' = "fetch"
            /\ UNCHANGED <<fail_msg, result>>
       ELSE /\ pc' = "failed"
            /\ fail_msg' = <<"No such module parameter: {key}">>
            /\ result' = [result EXCEPT !.logs = logger_enabled]
    /\ UNCHANGED <<run_env, series_vars, failed_at, plugin_vars, join_vars, setting_vars, check_mode,
                   fetched, state, use_compare, use_hook, param, item, controller,
                   created, existing_items, ul, changed_items, ni, nc, nd, changed,
                   requests>>

\* update_list(input_item, existing_items, state, None, None) for a list as
\* input_item: 'name' in input_item is False for a list of dicts, so nothing
\* matches, and pop_missing raises (list.pop takes no default)
update_list_of_list(input_list, items, st) ==
    LET none == [error |-> <<>>, input |-> input_list, existing |-> items,
                 matched |-> <<>>, ignored |-> <<>>, changed |-> <<>>,
                 changed_idx |-> <<>>, deleted |-> <<>>]
    IN  IF is_ignore(st) THEN none
        ELSE IF is_present(st) THEN [none EXCEPT !.error = <<"TypeError">>]
        ELSE IF is_absent(st) THEN none
        ELSE [none EXCEPT !.error = <<"ValueError">>]

\* ignored_items, changed_items, deleted_items = self.update_list(...)
UpdateListOfList ==
    /\ pc = "update_list"
    /\ LET r == update_list_of_list(item, existing_items, state)
       IN  /\ ul' = r
           /\ changed_items' = r.changed
           /\ pc' = IF r.error # <<>> THEN "except" ELSE "loop"
           /\ fail_msg' = r.error
    /\ changed' = FALSE
    /\ UNCHANGED <<run_env, series_vars, failed_at, plugin_vars, join_vars, setting_vars, check_mode,
                   fetched, state, use_compare, use_hook, param, item, controller,
                   created, existing_items, ni, nc, nd, result, requests>>

NextList ==
    \/ ListParam
    \/ Fetch
    \/ UpdateListOfList
    \/ Finish
    \/ Exit
    \/ Fail

SpecList == InitList /\ [][NextList]_vars

(***************************************************************************)
(* The settings module (plugins/modules/setting.py)                        *)
(*                                                                         *)
(* A section of the parameter 'settings' is [section, values], values      *)
(* being the section's <<key, value>> pairs in the order of the mapping.   *)
(* A setting held by the controller is an item with the field "key".       *)
(***************************************************************************)
\* what GET /stat/ccode returns
CCODES == <<[key |-> "US", code |-> "840"], [key |-> "DE", code |-> "276"]>>

\* next(filter(lambda x: x.get('key', None) == value, ccodes), {}).get('code'),
\* "" for None
ccode_of(value) ==
    LET hits == SelectSeq(CCODES, LAMBDA x : x["key"] = value)
    IN  IF hits = <<>> THEN "" ELSE hits[1]["code"]

\* index of next(filter(lambda x: x.get('key') == section, settings), None),
\* 0 for None
setting_index(list, section) ==
    LET hits == {i \in 1..Len(list) : Has(list[i], "key") /\ list[i]["key"] = section}
    IN  IF hits = {} THEN 0 ELSE CHOOSE i \in hits : \A j \in hits : i <= j

\* the inner loop of main() over the keys of one section, from pair i on:
\* setting is <<>> for None, gets counts the lookups of the country codes
RECURSIVE section_keys(_, _, _, _, _)
section_keys(acc, section, values, st, i) ==
    IF i > Len(values) \/ acc.error # <<>> THEN acc
    ELSE LET key == values[i][1]
             lookup == st = "present" /\ section = "country" /\ key = "code"
             value == IF lookup THEN ccode_of(values[i][2]) ELSE values[i][2]
             gets == acc.gets + (IF lookup THEN 1 ELSE 0)
             stop(msg) == [acc EXCEPT !.gets = gets, !.error = <<msg>>]
             next ==
                 IF lookup /\ value = "" THEN stop("No such country code")
                 ELSE IF st = "present"
                 THEN IF acc.setting = <<>> THEN stop("AttributeError")
                      ELSE IF ~Has(acc.setting[1], key) \/ acc.setting[1][key] # value
                      THEN [acc EXCEPT !.gets = gets, !.changed = TRUE,
                                       !.setting = <<Put(acc.setting[1], key, value)>>]
                      ELSE [acc EXCEPT !.gets = gets]
                 ELSE IF st = "absent"
                 THEN IF acc.setting = <<>> THEN stop("TypeError")
                      ELSE IF Has(acc.setting[1], key)
                      THEN [acc EXCEPT !.gets = gets, !.changed = TRUE,
                                       !.setting = <<Put(acc.setting[1], key, "")>>]
                      ELSE [acc EXCEPT !.gets = gets]
                 ELSE [acc EXCEPT !.gets = gets]
         IN  section_keys(next, section, values, st, i + 1)

\* what connection.send gives back for a request on the settings: a section
\* is addressed by its key
settings_reply(req, store) ==
    IF req.method = "PUT" /\ setting_index(store, req.id[1]) > 0
    THEN [ok |-> TRUE,
          store |-> [i \in 1..Len(store) |->
                        IF i = setting_index(store, req.id[1]) THEN req.body[1]
                        ELSE store[i]],
          data |-> <<req.body[1]>>]
    ELSE [ok |-> req.method = "GET", store |-> store, data |-> store]

MkSetting(section, id, key, value) ==
    [k \in {"key", "_id"} \cup (IF key = "" THEN {} ELSE {key}) |->
        CASE k = "key" -> section [] k = "_id" -> id [] OTHER -> value]

\* the settings a controller holds
SettingStores ==
    {m \o c : m \in {<<>>, <<MkSetting("mgmt", "s1", "led_enabled", "true")>>,
                     <<MkSetting("mgmt", "s1", "", "")>>},
              c \in {<<>>, <<MkSetting("country", "s2", "code", "840")>>}}

MgmtValues == {<<>>, <<<<"led_enabled", "true">>>>, <<<<"led_enabled", "false">>>>,
               <<<<"led_enabled", "false">>, <<"x_ssh_enabled", "true">>>>}

CountryValues == {<<<<"code", "US">>>>, <<<<"code", "DE">>>>, <<<<"code", "XX">>>>}

\* the mappings a user declares as 'settings'
InputSettings ==
    {<<>>}
    \cup {<<[section |-> "mgmt", values |-> m]>> : m \in MgmtValues}
    \cup {<<[section |-> "country", values |-> c]>> : c \in CountryValues}
    \cup {<<[section |-> "mgmt", values |-> m], [section |-> "country", values |-> c]>> :
             m \in MgmtValues, c \in CountryValues}
    \cup {<<[section |-> "country", values |-> c], [section |-> "mgmt", values |-> m]>> :
             m \in MgmtValues, c \in CountryValues}

InitSetting ==
    /\ pc = "s_start"
    /\ check_mode \in BOOLEAN
    /\ state \in STATES
    /\ input_settings \in InputSettings
    /\ controller \in SettingStores
    /\ settings = <<>>
    /\ section_no = 0
    /\ fetched = <<>>
    /\ result = RESULT_STUB
    /\ requests = <<>>
    /\ use_compare = FALSE /\ use_hook = FALSE
    /\ param = EmptyItem /\ item = EmptyItem
    /\ created = 0
    /\ existing_items = <<>>
    /\ ul = NoUl
    /\ changed_items = <<>>
    /\ ni = 0 /\ nc = 0 /\ nd = 0
    /\ changed = FALSE
    /\ fail_msg = <<>>
    /\ logger_enabled \in BOOLEAN
    /\ socket_path = TRUE
    /\ item_type = "settings"
    /\ run_no = 1
    /\ invocation = 1
    /\ prev = <<>>
    /\ failed_at = 0
    /\ PluginOff
    /\ JoinOff

\* unifi.result['changed'] = False; settings = unifi.send(item_type='get_settings')
SettingFetch ==
    /\ pc = "s_start"
    /\ LET req == send_request(<<>>, ApiPath("get_settings"), <<>>)
           reply == settings_reply(req, controller)
       IN  /\ requests' = Append(requests, req)
           /\ settings' = reply.data
           /\ fetched' = reply.data
    /\ result' = [result EXCEPT !.changed = FALSE]
    /\ pc' = "s_loop"
    /\ UNCHANGED <<run_env, series_vars, failed_at, plugin_vars, join_vars, check_mode, state, controller, input_settings, section_no, ensure_vars>>

CcodeRequest == send_request(<<>>, ApiPath("ccode"), <<>>)

\* one pass of 'for section, section_settings in input_settings.items()'
SettingSection ==
    /\ pc = "s_loop"
    /\ section_no < Len(input_settings)
    /\ LET sec == input_settings[section_no + 1]
           at == setting_index(settings, sec.section)
           start == [setting |-> IF at = 0 THEN <<>> ELSE <<settings[at]>>,
                     changed |-> FALSE, gets |-> 0, error |-> <<>>]
           out == section_keys(start, sec.section, sec.values, state, 1)
           lookups == [j \in 1..out.gets |-> CcodeRequest]
           put == send_request(out.setting, ApiPath("settings"), <<sec.section>>)
           reply == settings_reply(put, controller)
           merged == IF at = 0 THEN settings
                     ELSE [settings EXCEPT ![at] = out.setting[1]]
       IN  IF out.error # <<>>
           THEN /\ requests' = requests \o lookups
                /\ settings' = merged
                /\ pc' = "crashed"
                /\ UNCHANGED <<controller, result, section_no>>
           ELSE IF out.changed
           THEN /\ requests' = (requests \o lookups) \o <<put>>
                /\ controller' = reply.store
                /\ settings' = merged
                /\ IF reply.ok
                   THEN /\ result' = [set_result(result, reply.data, TRUE, "dict")
                                         EXCEPT !.changed = TRUE]
                        /\ section_no' = section_no + 1
                        /\ pc' = pc
                   ELSE /\ pc' = "crashed"
                        /\ UNCHANGED <<result, section_no>>
           ELSE /\ requests' = requests \o lookups
                /\ result' = set_result(result, IF out.setting = <<>> THEN EmptyItem
                                                ELSE out.setting[1], FALSE, "dict")
                /\ section_no' = section_no + 1
                /\ UNCHANGED <<pc, controller, settings>>
    /\ UNCHANGED <<run_env, series_vars, failed_at, plugin_vars, join_vars, check_mode, state, fetched, input_settings, ensure_vars>>

\* unifi.exit()
SettingExit ==
    /\ pc = "s_loop"
    /\ section_no = Len(input_settings)
    /\ result' = [result EXCEPT !.logs = logger_enabled]
    /\ pc' = "done"
    /\ UNCHANGED <<run_env, series_vars, failed_at, plugin_vars, join_vars, check_mode, state, controller,
                   fetched, requests, setting_vars, ensure_vars>>

NextSetting ==
    \/ SettingFetch
    \/ SettingSection
    \/ SettingExit

SpecSetting == InitSetting /\ [][NextSetting]_vars

(***************************************************************************)
(* The connection plugin at work: calls of send_request on one persistent  *)
(* connection.  connection.send is the framework's: it asks the            *)
(* controller, hands an error status to handle_httperror, sends the        *)
(* request again where that returns True, raises where it returns False or *)
(* raises, and takes what else it returns for the response.                *)
(***************************************************************************)
MaxCalls == 3

\* the variables of a module run
module_vars == <<pc, check_mode, state, controller, fetched, result, requests,
                 setting_vars, ensure_vars, run_env, series_vars, failed_at>>

\* no module runs
ModuleOff ==
    /\ check_mode = FALSE
    /\ state = "present"
    /\ controller = <<>>
    /\ fetched = <<>>
    /\ result = RESULT_STUB
    /\ requests = <<>>
    /\ input_settings = <<>> /\ settings = <<>> /\ section_no = 0
    /\ use_compare = FALSE /\ use_hook = FALSE
    /\ param = EmptyItem /\ item = EmptyItem
    /\ created = 0
    /\ existing_items = <<>>
    /\ ul = NoUl
    /\ changed_items = <<>>
    /\ ni = 0 /\ nc = 0 /\ nd = 0
    /\ changed = FALSE
    /\ fail_msg = <<>>
    /\ logger_enabled = FALSE
    /\ socket_path = TRUE
    /\ item_type = "portconf"
    /\ run_no = 1
    /\ invocation = 1
    /\ prev = <<>>
    /\ failed_at = 0

\* the values passed as data: None, an empty mapping, an _id alone, an _id
\* with a further key, and a mapping without _id
CallData ==
    {<<>>, <<EmptyItem>>, <<MkItem("", "x", "", "", "")>>,
     <<MkItem("guest", "x", "", "", "")>>, <<MkItem("guest", "", "", "", "")>>}

\* the arguments of a call of send_request; method is the keyword 'method' of
\* message_kwargs
Calls ==
    {[op |-> "send_request", data |-> d, path |-> s[3], proxy |-> x,
      path_prefix |-> s[1], site |-> s[2], id |-> i, method |-> m] :
        d \in CallData, x \in {<<>>, <<"network">>},
        s \in {<<"/api/s/", "default", "/rest/wlanconf">>, <<"/api/", "self", "/sites">>},
        i \in {<<>>, <<"y">>}, m \in {<<>>, <<"GET">>}}

\* the send_request of a session: the list of a kind's items
SessionCall ==
    [op |-> "send_request", data |-> <<>>, path |-> "/rest/wlanconf",
     proxy |-> <<"network">>, path_prefix |-> "/api/s/", site |-> "default",
     id |-> <<>>, method |-> <<>>]

\* what is followed on a connection: any send_request answered without
\* authentication headers ("requests"), or the plain send_request of a
\* session answered with any headers ("session"); login and logout in both
CallsOf(sc) == IF sc = "session" THEN {SessionCall} ELSE Calls

HeadersOf(sc) == IF sc = "session" THEN ResponseHeaders ELSE {NoResp}

InitPlugin ==
    /\ pc = "off"
    /\ ModuleOff
    /\ JoinOff
    /\ hpc = "idle"
    /\ is_unifi_os \in {<<>>, <<TRUE>>, <<FALSE>>}
    /\ masked_errors = <<>>
    /\ call = NoCall
    /\ wire = NoWire
    /\ handled = NoHandled
    /\ outcome = NoOutcome
    /\ probe_status = 0
    /\ auth = <<>>
    /\ resp = NoResp
    /\ scope \in {"requests", "session"}
    /\ ncalls = 0

\* a call c up to its first connection.send: that of the probe in
\* __check_unifi_os where the variant is not known yet, else that of the request
StartCall(c) ==
    /\ hpc = "idle"
    /\ ncalls < MaxCalls
    /\ call' = c
    /\ IF needs_probe(is_unifi_os)
       THEN /\ masked_errors' = masked_errors \o PROBE_MASKED
            /\ wire' = ProbeRequest
            /\ hpc' = "probe"
       ELSE /\ wire' = call_request(c, is_unifi_os[1])
            /\ hpc' = "send"
            /\ UNCHANGED masked_errors
    /\ ncalls' = ncalls + 1
    /\ outcome' = NoOutcome
    /\ handled' = NoHandled
    /\ resp' = NoResp
    /\ UNCHANGED <<is_unifi_os, probe_status, auth, scope, module_vars, join_vars>>

\* send_request(**c)
SendRequest == \E c \in CallsOf(scope) : StartCall(c)

\* login(username, password)
Login == StartCall([NoCall EXCEPT !.op = "login"])

\* logout()
Logout == StartCall([NoCall EXCEPT !.op = "logout"])

\* what handle_httperror did with an answer of status st
Handled(st, base, h) ==
    [code |-> st, masked |-> \E i \in 1..Len(masked_errors) : masked_errors[i] = st,
     base |-> base, kind |-> h.kind, path |-> wire.path, body |-> ErrorBody(st),
     message |-> h.message]

\* the controller answers the probe with status st and the headers hd (the
\* connection passes every response to update_auth): the rest of
\* __check_unifi_os, then the call up to its connection.send
ProbeResponse ==
    /\ hpc = "probe"
    /\ \E st \in Statuses, base \in BaseResults, hd \in HeadersOf(scope) :
          LET h == handle_httperror(st, masked_errors, base, wire.path, ErrorBody(st))
          IN  /\ handled' = IF st = 200 THEN handled ELSE Handled(st, base, h)
              /\ probe_status' = st
              /\ IF st = 200 \/ h.kind = "response"
                 THEN /\ is_unifi_os' = <<st = 200>>
                      /\ masked_errors' =
                            list_remove(list_remove(masked_errors, PROBE_MASKED[1]),
                                        PROBE_MASKED[2])
                      /\ wire' = call_request(call, st = 200)
                      /\ hpc' = "send"
                      /\ auth' = <<update_auth(auth, hd)>>
                      /\ resp' = hd
                      /\ UNCHANGED outcome
                 ELSE IF h.kind = "retry"
                 THEN /\ resp' = NoResp
                      /\ UNCHANGED <<is_unifi_os, masked_errors, wire, hpc, outcome,
                                     auth>>
                 ELSE /\ outcome' = [kind |-> "raised", status |-> st,
                                     message |-> h.message]
                      /\ hpc' = "idle"
                      /\ wire' = NoWire
                      /\ resp' = NoResp
                      /\ UNCHANGED <<is_unifi_os, masked_errors, auth>>
    /\ call' = IF hpc' = "idle" THEN NoCall ELSE call
    /\ UNCHANGED <<ncalls, scope, module_vars, join_vars>>

\* the controller answers the request with status st and the headers hd: the
\* rest of the call
Response ==
    /\ hpc = "send"
    /\ \E st \in Statuses, base \in BaseResults, hd \in HeadersOf(scope) :
          LET h == handle_httperror(st, masked_errors, base, wire.path, ErrorBody(st))
          IN  /\ handled' = IF st = 200 THEN handled ELSE Handled(st, base, h)
              /\ IF st = 200 \/ h.kind = "response"
                 THEN /\ outcome' = [kind |-> "returned", status |-> st,
                                     message |-> <<>>]
                      /\ hpc' = "idle"
                      /\ auth' = <<update_auth(auth, hd)>>
                      /\ resp' = hd
                 ELSE IF h.kind = "retry"
                 THEN /\ resp' = NoResp
                      /\ UNCHANGED <<hpc, outcome, auth>>
                 ELSE /\ outcome' = [kind |-> "raised", status |-> st,
                                     message |-> h.message]
                      /\ hpc' = "idle"
                      /\ resp' = NoResp
                      /\ UNCHANGED auth
    /\ call' = IF hpc' = "idle" THEN NoCall ELSE call
    /\ wire' = IF hpc' = "idle" THEN NoWire ELSE wire
    /\ UNCHANGED <<is_unifi_os, masked_errors, probe_status, ncalls, scope,
                   module_vars, join_vars>>

\* connection.send raises instead of returning a response (the controller
\* cannot be reached, handle_httperror is not called): the exception leaves
\* the call where it is
TransportFailure ==
    /\ hpc \in {"probe", "send"}
    /\ outcome' = [kind |-> "raised", status |-> 0, message |-> <<UNREACHABLE>>]
    /\ hpc' = "idle"
    /\ call' = NoCall
    /\ wire' = NoWire
    /\ handled' = NoHandled
    /\ resp' = NoResp
    /\ UNCHANGED <<is_unifi_os, masked_errors, probe_status, ncalls, auth, scope,
                   module_vars, join_vars>>

NextPlugin ==
    \/ SendRequest
    \/ Login
    \/ Logout
    \/ ProbeResponse
    \/ Response
    \/ TransportFailure

SpecPlugin == InitPlugin /\ [][NextPlugin]_vars

(***************************************************************************)
(* Logger.join (plugins/module_utils/logging.py).  A log entry is          *)
(* [timestamp, level, message]; the timestamp is a number of seconds as    *)
(* Logger.__log stores it, and a string once join has formatted it.        *)
(***************************************************************************)
MaxLogs == 3

\* [log_entry for log in logs for log_entry in log]
RECURSIVE flatten(_)
flatten(lists) ==
    IF lists = <<>> THEN <<>> ELSE lists[1] \o flatten(Tail(lists))

\* a sort that puts an entry before the entries of its timestamp
RECURSIVE timestamp_sort_unstable(_)
timestamp_sort_unstable(list) ==
    IF list = <<>> THEN <<>>
    ELSE LET n == Len(list)
             last == list[n]
             rest == timestamp_sort_unstable(SubSeq(list, 1, n - 1))
             before == SelectSeq(rest, LAMBDA e : e.timestamp < last.timestamp)
             after == SelectSeq(rest, LAMBDA e : e.timestamp >= last.timestamp)
         IN  (before \o <<last>>) \o after

\* logs.sort(key=lambda x: x['timestamp']): list.sort is stable, an entry
\* stays behind the earlier entries of its timestamp
RECURSIVE timestamp_sort(_)
timestamp_sort(list) ==
    IF list = <<>> THEN <<>>
    ELSE LET n == Len(list)
             last == list[n]
             rest == timestamp_sort(SubSeq(list, 1, n - 1))
             before == SelectSeq(rest, LAMBDA e : e.timestamp <= last.timestamp)
             after == SelectSeq(rest, LAMBDA e : e.timestamp > last.timestamp)
         IN  (before \o <<last>>) \o after

\* str(datetime.fromtimestamp(t)) for the timestamps of the model (UTC)
format_timestamp(t) ==
    CASE t = 1 -> "1970-01-01 00:00:01"
      [] t = 2 -> "1970-01-01 00:00:02"
      [] OTHER -> "1970-01-01 00:00:03"

\* Logger.join(*lists)
join(lists) ==
    LET sorted == timestamp_sort(flatten(lists))
    IN  [i \in 1..Len(sorted) |->
            [sorted[i] EXCEPT !.timestamp = format_timestamp(@)]]

\* the entries a logger holds
LogEntries ==
    {[timestamp |-> t, level |-> "DEBUG", message |-> m] :
        t \in {1, 2}, m \in {"a", "b", "c"}}

\* the lists of at most n entries
LogLists(n) == UNION {[1..k -> LogEntries] : k \in 0..n}

\* the logs of the connection and the logs of the module
InitJoin ==
    /\ pc = "join"
    /\ ModuleOff
    /\ PluginOff
    /\ logs \in {<<a, b>> : a \in LogLists(MaxLogs), b \in LogLists(1)}
    /\ joined = <<>>

\* result['logs'] = Logger.join(self.connection.get_logs(), self.__logger.logs)
Join ==
    /\ pc = "join"
    /\ joined' = join(logs)
    /\ pc' = "joined"
    /\ UNCHANGED <<logs, check_mode, state, controller, fetched, result, requests,
                   setting_vars, ensure_vars, run_env, series_vars, failed_at,
                   plugin_vars>>

NextJoin == Join

SpecJoin == InitJoin /\ [][NextJoin]_vars

(***************************************************************************)
(* Properties of ensure_item                                               *)
(***************************************************************************)
\* the PUT, POST and DELETE requests of a log, in order
Mutating(reqs) == SelectSeq(reqs, LAMBDA r : r.method # "GET")

GetRequest == [method |-> "GET", path |-> ApiPath(ItemType), id |-> <<>>, body |-> <<>>]

\* update_list has returned without raising
Returned == pc \in {"loop", "exit", "done"}

\* the attributes the preprocess callback marked as required absent
RequiredAbsent == IF use_hook /\ ~Has(param, "poe_mode") THEN {"poe_mode"} ELSE {}

\* the existing items the compare callback accepts, and those with the input
\* item's name (evaluated only where update_list has returned)
CustomSet == {i \in 1..Len(fetched) : compare_networkconf(param, fetched[i])}

NameSet == {i \in 1..Len(fetched) : compare_name(param, fetched[i])}

IdSet == {i \in 1..Len(fetched) :
             Has(param, "_id") /\ fetched[i]["_id"] = param["_id"]}

Increasing(s) == \A i, j \in 1..Len(s) : i < j => s[i] < s[j]

\* C1: a run outside check mode that completes and has sent a PUT, POST or
\* DELETE reports changed = true, whatever the state (absent included).
C1_ChangedWhenSent ==
    (pc = "done" /\ ~check_mode /\ Len(Mutating(requests)) > 0) => result.changed

\* a run outside check mode that completes sends one request for every item
\* update_list returned as changed or deleted
SentAsPlanned ==
    (pc = "done" /\ ~check_mode) =>
        Len(Mutating(requests)) = Len(ul.changed) + Len(ul.deleted)

\* C2: a check-mode run reports changed exactly when the same run outside
\* check mode would have sent a PUT, POST or DELETE (that is, when update_list
\* returned an item to change, create or delete).
C2_CheckModeReportsChanged ==
    (pc = "done" /\ check_mode) =>
        (result.changed <=> (Len(ul.changed) + Len(ul.deleted) > 0))

MergedAsDesired(i) ==
    LET orig == fetched[i]
        new == existing_items[i]
    IN  /\ \A k \in DOMAIN param : Has(new, k) /\ new[k] = param[k]
        /\ \A k \in RequiredAbsent : ~Has(new, k)
        /\ \A k \in (DOMAIN orig) \ ((DOMAIN param) \cup RequiredAbsent) :
              Has(new, k) /\ new[k] = orig[k]
        /\ DOMAIN new \subseteq (DOMAIN orig) \cup (DOMAIN param)

Differs(i) ==
    LET orig == fetched[i]
    IN  \/ \E k \in DOMAIN param : ~Has(orig, k) \/ orig[k] # param[k]
        \/ \E k \in RequiredAbsent : Has(orig, k)

\* C5: state present with at least one match: after the merge every matched
\* item holds every field of the desired item with its value, none of the
\* required-absent fields, and its other fields unchanged; it is in the
\* changed list exactly when a field differed or was absent, or a
\* required-absent field was present.
C5_MergeIntoMatches ==
    (Returned /\ state = "present" /\ ul.matched # <<>>) =>
        /\ \A j \in 1..Len(ul.matched) : MergedAsDesired(ul.matched[j])
        /\ \A i \in 1..Len(existing_items) :
              i \notin SeqToSet(ul.matched) => existing_items[i] = fetched[i]
        /\ Increasing(ul.changed_idx)
        /\ \A j \in 1..Len(ul.matched) :
              (ul.matched[j] \in SeqToSet(ul.changed_idx)) <=> Differs(ul.matched[j])
        /\ ul.changed = [j \in 1..Len(ul.changed_idx) |-> existing_items[ul.changed_idx[j]]]
        /\ ul.ignored = <<>> /\ ul.deleted = <<>>

C5_Witness ==
    /\ pc = "done" /\ state = "present"
    /\ Len(ul.matched) = 2 /\ Len(ul.changed) = 1
    /\ RequiredAbsent # {}
    /\ \E j \in 1..2 : Has(fetched[ul.matched[j]], "poe_mode")

\* the one request that creates the desired item
CreateRequest ==
    [method |-> "POST", path |-> ApiPath(ItemType), id |-> <<>>, body |-> <<param>>]

\* C6 as stated: state present, no match, outside check mode: the only
\* mutating request is a POST of the desired item (without the annotation) to
\* the collection path, whatever fields the item carries.
C6_CreateIsAlwaysPost ==
    (pc = "done" /\ state = "present" /\ ~check_mode /\ ul.matched = <<>>) =>
        Mutating(requests) = <<CreateRequest>>

\* C6 as amended (for an item whose _id, if it has one, is not empty): state
\* present, no match, outside check mode: exactly one
\* mutating request is sent. It is a POST of the desired item (without the
\* annotation) to the collection path when the item carries no _id; a PUT of
\* the item to path/{_id} when it carries _id and other fields; a DELETE of
\* path/{_id} without a body when _id is its only field.
C6_CreateRequestById ==
    (pc \in {"exit", "done", "failed"} /\ requests # <<>> /\ failed_at # 1
        /\ ul.error = <<>> /\ state = "present" /\ ~check_mode /\ ul.matched = <<>>) =>
        Mutating(requests) =
            << IF ~Has(param, "_id") THEN CreateRequest
               ELSE IF DOMAIN param = {"_id"}
               THEN [method |-> "DELETE", path |-> ApiPath(ItemType),
                     id |-> <<param["_id"]>>, body |-> <<>>]
               ELSE [method |-> "PUT", path |-> ApiPath(ItemType),
                     id |-> <<param["_id"]>>, body |-> <<param>>] >>

C6_Witness ==
    /\ pc = "done" /\ state = "present" /\ ~check_mode /\ ul.matched = <<>>
    /\ RequiredAbsent # {} /\ ~Has(param, "_id") /\ Has(param, "name")
    /\ Len(existing_items) > 0
    /\ Mutating(requests) = <<CreateRequest>>

\* the match set update_list must use: the compare callback's matches when
\* it is given and matches something, else the matches by name
ExpectedMatches ==
    IF use_compare /\ CustomSet # {} THEN CustomSet ELSE NameSet

DeleteRequest(id) ==
    [method |-> "DELETE", path |-> ApiPath(ItemType), id |-> <<id>>, body |-> <<>>]

C8_IgnoreOnlyLists ==
    (Returned /\ state = "ignore") =>
        /\ SeqToSet(ul.matched) = ExpectedMatches
        /\ Increasing(ul.matched)
        /\ ul.ignored = [j \in 1..Len(ul.matched) |-> fetched[ul.matched[j]]]
        /\ ul.changed = <<>> /\ ul.deleted = <<>>
        /\ existing_items = fetched /\ controller = fetched
        /\ requests = <<GetRequest>>
        /\ ~changed /\ ~result.changed
        /\ pc = "done" => result.data = ul.ignored

C8_Witness ==
    /\ pc = "done" /\ state = "ignore" /\ ~check_mode
    /\ Len(ul.ignored) = 2 /\ Len(existing_items) = 2

C8_WitnessNoMatch ==
    /\ pc = "done" /\ state = "ignore" /\ ul.matched = <<>> /\ ~result.has_kind

\* C9: the match set is the compare callback's matches when a callback is
\* given and matches at least one item; otherwise it is exactly the items
\* with the desired item's name (case invariant); never a mix of the two.
C9_ComparatorFallback ==
    Returned =>
        /\ Increasing(ul.matched)
        /\ SeqToSet(ul.matched) = ExpectedMatches
        /\ (use_compare /\ CustomSet # {}) => SeqToSet(ul.matched) = CustomSet
        /\ (use_compare /\ CustomSet = {}) => SeqToSet(ul.matched) = NameSet
        /\ ~use_compare => SeqToSet(ul.matched) = NameSet

C9_Witness ==
    /\ pc = "loop" /\ state = "present" /\ use_compare
    /\ CustomSet # {} /\ NameSet # {} /\ CustomSet \cap NameSet = {}
    /\ SeqToSet(ul.matched) = CustomSet

C9_WitnessFallback ==
    /\ pc = "loop" /\ state = "absent" /\ use_compare
    /\ CustomSet = {} /\ NameSet # {}
    /\ SeqToSet(ul.matched) = NameSet

\* neither the compare callback nor the name matches, and an existing item
\* has the desired item's _id
OnlyIdMatches ==
    /\ Returned
    /\ (IF use_compare THEN CustomSet = {} ELSE TRUE)
    /\ NameSet = {}
    /\ IdSet # {}

C4_SettingCheckModeSendsNothing ==
    (check_mode /\ pc # "s_start") =>
        /\ \A i \in 1..Len(requests) :
              ~(requests[i].path = ApiPath("settings") /\ requests[i].body # <<>>)
        /\ controller = fetched


(***************************************************************************)
(* Properties of the connection plugin                                     *)
(***************************************************************************)
\* the request of the current send_request has been built and handed to
\* connection.send
Built == hpc = "send" /\ call.op = "send_request"

\* data is a mapping that contains _id
DataId(c) == c.data # <<>> /\ Has(c.data[1], "_id")

\* the id of a call: the explicit one, else the _id of data, else none
ResolvedId(c) ==
    IF c.id # <<>> THEN c.id
    ELSE IF DataId(c) THEN <<c.data[1]["_id"]>>
    ELSE <<>>

\* {proxy} of the path templates under the variant flag of the connection
ProxyPart(c) ==
    IF is_unifi_os = <<TRUE>> /\ c.proxy # <<>> THEN "/proxy/" \o c.proxy[1] ELSE ""

\* {proxy}{path_prefix}{site}{path}
CollectionPath(c) == ((ProxyPart(c) \o c.path_prefix) \o c.site) \o c.path

\* {proxy}{path_prefix}{site}{path}/{id}
ItemPath(c, id) == (CollectionPath(c) \o "/") \o id

\* C11: without a method override, data given and no id resolvable gives a
\* POST to {proxy}{path_prefix}{site}{path}, data given and an explicit id a
\* PUT to that path with /{id}, no data and an explicit id a DELETE to the path
\* with /{id}, no data and no id a GET to the path; data given means not None,
\* an empty mapping included.
C11_MethodFromDataAndId ==
    (Built /\ call.method = <<>>) =>
        /\ (call.data # <<>> /\ ResolvedId(call) = <<>>) =>
              /\ wire.method = "POST"
              /\ wire.path = CollectionPath(call)
              /\ wire.body # <<>> /\ wire.body[1].value = call.data[1]
        /\ (call.data # <<>> /\ call.id # <<>>) =>
              /\ wire.method = "PUT"
              /\ wire.path = ItemPath(call, call.id[1])
              /\ wire.body # <<>> /\ wire.body[1].value = call.data[1]
        /\ (call.data = <<>> /\ call.id # <<>>) =>
              /\ wire.method = "DELETE"
              /\ wire.path = ItemPath(call, call.id[1])
              /\ wire.body = <<>>
        /\ (call.data = <<>> /\ call.id = <<>>) =>
              /\ wire.method = "GET"
              /\ wire.path = CollectionPath(call)
              /\ wire.body = <<>>

C11_Witness ==
    /\ Built /\ call.method = <<>> /\ call.id = <<>> /\ call.proxy = <<>>
    /\ call.data = <<EmptyItem>>
    /\ wire = [method |-> "POST", path |-> "/api/s/default/rest/wlanconf",
               body |-> <<[json |-> FALSE, value |-> EmptyItem]>>]

\* C12 as stated: data present and an id resolvable, passed explicitly or found
\* as an _id-only singleton in data: the request is a PUT to the path with
\* /{id}.
C12_PutWhenIdResolvable ==
    (Built /\ call.method = <<>> /\ call.data # <<>>
        /\ (call.id # <<>> \/ DOMAIN call.data[1] = {"_id"})) =>
        /\ wire.method = "PUT"
        /\ wire.path = ItemPath(call, ResolvedId(call)[1])

\* C12 as amended: data present and an id resolvable: the request is a PUT of
\* data to the path with /{id} where the id is passed explicitly or data
\* carries _id next to further keys; data that is an _id-only singleton
\* without an explicit id gives a DELETE without a body instead.
C12_PutWhenDataRemains ==
    (Built /\ call.method = <<>> /\ call.data # <<>> /\ ResolvedId(call) # <<>>) =>
        IF call.id # <<>> \/ DOMAIN call.data[1] # {"_id"}
        THEN /\ wire.method = "PUT"
             /\ wire.path = ItemPath(call, ResolvedId(call)[1])
             /\ wire.body # <<>> /\ wire.body[1].value = call.data[1]
        ELSE wire.method = "DELETE" /\ wire.body = <<>>

C12_Witness ==
    /\ Built /\ call.method = <<>> /\ call.id = <<>> /\ call.data # <<>>
    /\ DOMAIN call.data[1] = {"_id", "name"}
    /\ wire.method = "PUT"
    /\ wire.path = "/api/s/default/rest/wlanconf/x"

\* C13: no explicit id and data is a mapping that contains _id: an _id that
\* is the only key gives a DELETE to path/{data._id} without a body, further
\* keys give a PUT to path/{data._id}; with an explicit id and an _id in data,
\* the explicit id is the one in the URI.
C13_IdFromData ==
    (Built /\ call.method = <<>> /\ DataId(call)) =>
        IF call.id # <<>>
        THEN wire.path = ItemPath(call, call.id[1])
        ELSE IF DOMAIN call.data[1] = {"_id"}
        THEN /\ wire.method = "DELETE"
             /\ wire.path = ItemPath(call, call.data[1]["_id"])
             /\ wire.body = <<>>
        ELSE /\ wire.method = "PUT"
             /\ wire.path = ItemPath(call, call.data[1]["_id"])

C13_Witness ==
    /\ Built /\ call.method = <<>> /\ call.id = <<"y">> /\ DataId(call)
    /\ call.data[1]["_id"] = "x"
    /\ wire.path = "/api/self/sites/y"

C13_WitnessSingleton ==
    /\ Built /\ call.method = <<>> /\ call.id = <<>> /\ call.data # <<>>
    /\ DOMAIN call.data[1] = {"_id"}
    /\ wire = [method |-> "DELETE", path |-> "/api/s/default/rest/wlanconf/x",
               body |-> <<>>]

\* the path of the current call behind the proxy segment
PathTail(c) ==
    LET base == (c.path_prefix \o c.site) \o c.path
    IN  IF ResolvedId(c) # <<>> THEN (base \o "/") \o ResolvedId(c)[1] ELSE base

\* C14: the URI starts with /proxy/{proxy} exactly when the variant flag is
\* OS-embedded and a proxy was requested; on a classic controller, or without
\* a proxy, it starts with the path prefix.
C14_ProxyOnlyOnUnifiOs ==
    Built =>
        IF is_unifi_os = <<TRUE>> /\ call.proxy # <<>>
        THEN wire.path = ("/proxy/" \o call.proxy[1]) \o PathTail(call)
        ELSE wire.path = PathTail(call)

C14_Witness ==
    /\ Built /\ is_unifi_os = <<FALSE>> /\ call.proxy = <<"network">>
    /\ wire.method = "POST"
    /\ wire.path = "/api/s/default/rest/wlanconf"

C14_WitnessUnifiOs ==
    /\ Built /\ is_unifi_os = <<TRUE>> /\ call.proxy = <<"network">>
    /\ wire.method = "POST"
    /\ wire.path = "/proxy/network/api/s/default/rest/wlanconf"

\* C15: a probe answered 401 or 400 does not raise and sets the variant flag
\* to classic, and from then on no code is masked: a request of the same
\* connection that is answered 400 or 401 ends in an error, never in a
\* returned response.
C15_ProbeRestoresPolicy ==
    probe_status \in {400, 401} =>
        /\ is_unifi_os = <<FALSE>>
        /\ masked_errors = <<>>
        /\ (hpc = "idle" /\ outcome.status \in {400, 401}) => outcome.kind = "raised"

\* some element of the formatted message is the part
Contains(message, part) == \E i \in 1..Len(message) : message[i] = part

\* C16: handle_httperror returns the error as the response, and raises
\* nothing, for a masked code; for a code that is not masked and that the base
\* handler does not intercept it raises an error whose message contains the
\* request path, the status and the response body.
C16_HandleHttpError ==
    handled.code # 0 =>
        /\ handled.masked =>
              /\ handled.kind = "response"
              /\ outcome.kind # "raised"
        /\ (~handled.masked /\ handled.base = "exc") =>
              /\ handled.kind = "raise"
              /\ Contains(handled.message, handled.path)
              /\ Contains(handled.message, HttpErrorText(handled.code))
              /\ Contains(handled.message, handled.body)
              /\ outcome = [kind |-> "raised", status |-> handled.code,
                            message |-> handled.message]

C16_Witness ==
    /\ handled.code = 400 /\ ~handled.masked /\ handled.base = "exc"
    /\ outcome.kind = "raised"
    /\ outcome.message = <<"Controller at ", "/api/s/default/rest/wlanconf",
                           " returned ", "HTTP Error 400: Bad Request",
                           ErrorBody(400)>>

C16_WitnessMasked ==
    /\ handled.code = 401 /\ handled.masked /\ handled.kind = "response"
    /\ hpc = "send" /\ is_unifi_os = <<FALSE>>

(***************************************************************************)
(* Properties of how ensure_item ends and of what it reports               *)
(***************************************************************************)
\* C17: an exception raised inside ensure_item ends the run in fail_json with
\* the exception's message; the trace is in the result exactly when the
\* logger is enabled; no exception leaves ensure_item.
C17_ExceptionsEndInFail ==
    /\ pc # "raised"
    /\ pc = "failed" => (fail_msg # <<>> /\ result.trace = logger_enabled)

\* C19: after ensure_item the kind's result list holds one outcome for every
\* operation: outside check mode what the controller returned for a create or
\* an update, and for a delete or an ignore the existing item as it was.
C19_ResultHoldsOutcomes ==
    pc = "done" =>
        /\ Len(result.data) = Len(ul.ignored) + Len(ul.changed) + Len(ul.deleted)
        /\ (state = "present" /\ ~check_mode) =>
              \A k \in 1..Len(result.data) :
                  /\ result.types[k] = "dict"
                  /\ \E i \in 1..Len(controller) : controller[i] = result.data[k]
        /\ state \in {"absent", "ignore"} =>
              /\ Len(result.data) = Len(ul.matched)
              /\ \A k \in 1..Len(result.data) :
                    /\ result.types[k] = "dict"
                    /\ result.data[k] = fetched[ul.matched[k]]

\* C20: a run of ensure_item that completes leaves a list under the kind's
\* key of the result, whatever the state and the existing items.
C20_ResultAlwaysHasKind ==
    pc = "done" => result.has_kind

(***************************************************************************)
(* Properties of Logger.join                                               *)
(***************************************************************************)
\* joined is the input flat, taken in the order p and formatted
JoinedBy(flat, p) ==
    \A i \in 1..Len(flat) :
        joined[i] = [flat[p[i]] EXCEPT !.timestamp = format_timestamp(@)]

\* C18: Logger.join returns the entries of the concatenated input lists, each
\* once, in an order that is non-decreasing by timestamp and that keeps
\* entries of equal timestamp in the order of the concatenation.
C18_JoinIsStableSort ==
    pc = "joined" =>
        LET flat == flatten(logs)
            n == Len(flat)
        IN  /\ Len(joined) = n
            /\ \E p \in Permutations(1..n) :
                  /\ JoinedBy(flat, p)
                  /\ \A i, j \in 1..n :
                        i < j =>
                          /\ flat[p[i]].timestamp <= flat[p[j]].timestamp
                          /\ flat[p[i]].timestamp = flat[p[j]].timestamp
                                => p[i] < p[j]

C18_Witness ==
    /\ pc = "joined"
    /\ logs = << <<[timestamp |-> 2, level |-> "DEBUG", message |-> "b"],
                   [timestamp |-> 1, level |-> "DEBUG", message |-> "a"],
                   [timestamp |-> 1, level |-> "DEBUG", message |-> "c"]>>, <<>> >>
    /\ [i \in 1..Len(joined) |-> joined[i].message] = <<"a", "c", "b">>

(***************************************************************************)
(* Properties of repeated runs                                             *)
(***************************************************************************)
\* the second run has handed its result over (ensure_item has returned)
SecondRunReported == run_no = 2 /\ pc \in {"exit", "done"}

\* C21: a second run in check mode for the same desired item against the
\* same existing items reports the same 'changed' flag and the same
\* operations as the first run did
C21_CheckModeRunsAgree ==
    (check_mode /\ SecondRunReported) => Reported = prev[1]

\* the create request for the i-th item of a declared list
ListCreateRequest(i) ==
    [method |-> "POST", path |-> ApiPath(ItemType), id |-> <<>>, body |-> <<param[i]>>]

\* the run of ensure_item for a declared list has ended
ListRunEnded == pc \in {"done", "failed", "raised"}

\* C22: for a declared list of desired items, each item that matches no
\* existing item has its own create request sent (state present, not in
\* check mode, nothing held by the controller)
C22_EachListItemCreated ==
    (ListRunEnded /\ is_present(state) /\ ~check_mode /\ Len(fetched) = 0) =>
        \A i \in 1..Len(param) :
            \E k \in 1..Len(requests) : requests[k] = ListCreateRequest(i)

(***************************************************************************)
(* Properties of a connection over its calls                               *)
(***************************************************************************)
\* C23: whenever no probe is in flight, 400 and 401 are not masked,
\* whatever calls of send_request, login and logout were made and however
\* a probe ended.
C23_MaskedOnlyWhileProbing ==
    hpc # "probe" => \A i \in 1..Len(masked_errors) : masked_errors[i] \notin {400, 401}

\* C24: once the variant flag is set it never changes and no probe is sent
\* any more; the flag is set by the answer to a probe only; any other
\* request goes out with the flag known, so after the probe; login and
\* logout POST to /api/auth/... on the OS-embedded variant and to /api/...
\* on the classic one.
C24_ProbeOnFirstUseOnly ==
    [][/\ is_unifi_os # <<>> => (is_unifi_os' = is_unifi_os /\ hpc' # "probe")
       /\ (is_unifi_os = <<>> /\ is_unifi_os' # <<>>) =>
              (hpc = "probe" /\ wire = ProbeRequest)
       /\ hpc' = "probe" => wire' = ProbeRequest
       /\ hpc' = "send" =>
              /\ is_unifi_os' # <<>>
              /\ wire' # ProbeRequest
              /\ call'.op = "login" =>
                    /\ wire'.method = "POST"
                    /\ wire'.path = IF is_unifi_os' = <<TRUE>> THEN "/api/auth/login"
                                    ELSE "/api/login"
              /\ call'.op = "logout" =>
                    /\ wire'.method = "POST"
                    /\ wire'.path = IF is_unifi_os' = <<TRUE>> THEN "/api/auth/logout"
                                    ELSE "/api/logout"]_vars

C24_Witness ==
    /\ probe_status = 200 /\ is_unifi_os = <<TRUE>>
    /\ ncalls >= 2
    /\ hpc = "send" /\ call.op = "logout"
    /\ wire.path = "/api/auth/logout"

C24_WitnessClassic ==
    /\ probe_status = 401 /\ is_unifi_os = <<FALSE>>
    /\ ncalls >= 2
    /\ hpc = "send" /\ call.op = "login"
    /\ wire.path = "/api/login"

\* the cached header k (<<>> where there is none)
Cached(a, k) == IF a # <<>> /\ Has(a[1], k) THEN <<a[1][k]>> ELSE <<>>

\* C25: the cached Cookie changes only in a step that passes a response with
\* Set-Cookie to update_auth, and then to the cookies of that header; the
\* cached X-Csrf-Token changes only with a response that carries
\* X-Csrf-Token, and then to its value; a response with neither, a login or
\* a logout leaves both as they are.
C25_AuthChangesWithHeadersOnly ==
    [][/\ resp'.set_cookie = <<>> => Cached(auth', "Cookie") = Cached(auth, "Cookie")
       /\ resp'.set_cookie # <<>> =>
              Cached(auth', "Cookie") =
                  <<comma_join(parse_cookies(resp'.set_cookie[1]))>>
       /\ resp'.x_csrf_token = <<>> =>
              Cached(auth', "X-Csrf-Token") = Cached(auth, "X-Csrf-Token")
       /\ resp'.x_csrf_token # <<>> =>
              Cached(auth', "X-Csrf-Token") = resp'.x_csrf_token]_vars

\* a logout was answered without Set-Cookie and X-Csrf-Token and the cache
\* still holds both
C25_Witness ==
    /\ hpc = "idle" /\ outcome.kind = "returned" /\ resp = NoResp
    /\ ncalls >= 2
    /\ Cached(auth, "Cookie") = <<"TOKEN=t2,csrf_token=c2">>
    /\ Cached(auth, "X-Csrf-Token") = <<"c1">>

(***************************************************************************)
(* Properties of the requests of a run                                     *)
(***************************************************************************)
\* where the GET returned the item with that _id (0: nowhere)
FetchedPos(id) ==
    IF \E i \in 1..Len(fetched) : fetched[i]["_id"] = id
    THEN CHOOSE i \in 1..Len(fetched) : fetched[i]["_id"] = id
    ELSE 0

\* C26: the first request of a run is the GET of the existing items and it
\* is the only GET; the requests after it are the PUTs and POSTs of the
\* items to change, in match order, or the DELETEs of the matches, in match
\* order, each operation sent at most once.
C26_OneFetchThenMutations ==
    requests # <<>> =>
        /\ requests[1] = GetRequest
        /\ \A k \in 2..Len(requests) : requests[k].method \in {"PUT", "POST", "DELETE"}
        /\ Len(requests) <= 1 + Len(ul.changed) + Len(ul.deleted)
        /\ is_present(state) =>
              /\ Increasing(ul.changed_idx)
              /\ \A k \in 2..Len(requests) :
                    requests[k] =
                        send_request(<<ul.changed[k - 1]>>, ApiPath(ItemType), <<>>)
        /\ is_absent(state) =>
              /\ \A k \in 2..Len(requests) :
                    /\ requests[k].method = "DELETE"
                    /\ FetchedPos(requests[k].id[1]) > 0
              /\ \A j, k \in 2..Len(requests) :
                    j < k => FetchedPos(requests[j].id[1]) < FetchedPos(requests[k].id[1])

C26_Witness ==
    /\ pc = "done" /\ state = "absent" /\ Len(requests) = 3
    /\ requests[2].method = "DELETE" /\ requests[3].method = "DELETE"

C26_WitnessPresent ==
    /\ pc = "done" /\ state = "present" /\ Len(requests) = 3
    /\ requests[2].method = "PUT" /\ requests[3].method = "PUT"

\* the controller holds what the request asked for
Applied(req) ==
    CASE req.method = "PUT" -> \E i \in 1..Len(controller) : controller[i] = req.body[1]
      [] req.method = "POST" ->
            \E i \in 1..Len(controller), n \in 0..created :
                controller[i] = Put(req.body[1], "_id", FreshId(n))
      [] req.method = "DELETE" -> ~HasId(controller, req.id[1])
      [] OTHER -> TRUE

\* C27: once a request of the run has failed, it is the last request of the
\* run (nothing is sent after it, it is not sent again), the operation
\* applied before it is still in place and the run ends in fail_json with
\* a message.
C27_FailureEndsRun ==
    failed_at # 0 =>
        /\ Len(requests) = failed_at
        /\ pc \in {"except", "failed"}
        /\ fail_msg # <<>>
        /\ failed_at > 2 => Applied(requests[failed_at - 1])

C27_Witness ==
    /\ pc = "failed" /\ failed_at = 3 /\ fail_msg = <<UNREACHABLE>>
    /\ requests[2].method = "PUT" /\ requests[3].method = "PUT"
    /\ controller # fetched

\* C28: the read of the existing items that ensure_item performs goes to
\* the endpoint of the kind's getter, every other request of the run to the
\* kind's own endpoint.
C28_ReadsFromGetter ==
    requests # <<>> =>
        /\ requests[1].method = "GET"
        /\ requests[1].path = ApiPath(Getter(ItemType))
        /\ \A k \in 2..Len(requests) : requests[k].path = ApiPath(ItemType)

(***************************************************************************)
(* Properties of the annotation of required-absent attributes              *)
(***************************************************************************)
\* the attributes recorded on the item so far
Missing(it) == IF Has(it, MISSING_KEY) THEN it[MISSING_KEY] ELSE <<>>

Convergent ==
    /\ ~Has(param, "_id")
    /\ \/ is_present(state) /\ Has(param, "name")
       \/ is_absent(state) /\ ~use_compare

C30_WitnessAbsent ==
    /\ run_no = 2 /\ pc = "done" /\ ~check_mode
    /\ state = "absent" /\ Convergent
    /\ Len(prev[1].data) = 2 /\ requests = <<GetRequest>>

====
